---- MODULE Spec2Model ----
(***************************************************************************)
(* State machine of the LLM instance pool                                  *)
(* (src/src/model/backend_control/llm_pool.py): the pool's worker mapping, *)
(* the execution units (threads or processes) running the worker body,     *)
(* their stop switches and queues, and the callers of the pool.            *)
(***************************************************************************)
EXTENDS Integers, Sequences, FiniteSets, TLC

\* ------------------------------------------------------------------------
\* Bounds of the model
\* ------------------------------------------------------------------------
\* number of execution units the pool creates in one run (calls of _load_llm)
MaxUnits == 2
\* number of prompts waiting in one input queue
MaxQueue == 1

WorkerIds == {"w1", "w2"}
Prompts == {"pa", "pb"}

\* ------------------------------------------------------------------------
\* Configurations: nested mappings. A value is a leaf or a nested dict.
\* ------------------------------------------------------------------------
Leaf(v) == [leaf |-> v]
Dict(d) == [dict |-> d]
IsDict(x) == "dict" \in DOMAIN x
EmptyDict == [k \in {} |-> 0]

\* the configuration of the pool tests: a model path and a translation table
cfgA == ("model_path" :> Leaf("m1")) @@ ("model_config" :> Dict("pa" :> Leaf("ra")))
\* cfgA with one more key inside model_config
cfgAB == ("model_path" :> Leaf("m1")) @@
         ("model_config" :> Dict(("pa" :> Leaf("ra")) @@ ("pb" :> Leaf("rb"))))
\* cfgA with one more key at the top level
cfgTop == cfgA @@ ("device" :> Leaf("cpu"))
Configs == {cfgA, cfgAB, cfgTop}

\* dictionary_utility.check_equality with exceptions = []
RECURSIVE check_equality(_, _)
check_equality_shallow(data, test_data) ==
    \A elem \in DOMAIN data :
        /\ elem \in DOMAIN test_data
        /\ ~IsDict(data[elem])
        /\ ~IsDict(test_data[elem])
        /\ test_data[elem].leaf = data[elem].leaf
check_equality(data, test_data) ==
    \A elem \in DOMAIN data :
        IF elem \in DOMAIN test_data
        THEN IF IsDict(data[elem])
             THEN IF IsDict(test_data[elem])
                  THEN check_equality(data[elem].dict, test_data[elem].dict)
                  ELSE FALSE
             ELSE IF IsDict(test_data[elem])
                  THEN FALSE
                  ELSE test_data[elem].leaf = data[elem].leaf
        ELSE FALSE

\* spawn_language_model_instance(**llm_configuration): the keywords of the
\* configuration must be exactly the factory's parameters, else TypeError
FactoryAccepts(config) == DOMAIN config = {"model_path", "model_config"}
\* TestLM.generate: self.model_config[prompt], KeyError for an unknown prompt
CanGenerate(config, prompt) == prompt \in DOMAIN config["model_config"].dict
LLMGenerate(config, prompt) == config["model_config"].dict[prompt].leaf

\* ------------------------------------------------------------------------
\* State
\* ------------------------------------------------------------------------
VARIABLES
    variant,             \* "thread" (ThreadedLLMPool) or "process" (MulitprocessingLLMPool)
    generation_timeout,  \* "None" or "set"
    workers,             \* self.workers: id -> [config, running, unit]
    order,               \* insertion order of self.workers
    units,               \* every execution unit created so far, with its switch and queues
    gen,                 \* per id: the generate call in flight
    pc,                  \* the lifecycle call in flight (blocked in join)
    last,                \* the call that returned last
    hist,                \* per id: what the caller did with it so far
    scope,               \* the ids, configurations and prompts the callers use,
                         \* and the ids whose history is kept
    cache                \* the keys of BackendController._cache, in insertion
                         \* order (empty for a pool used without the controller)

vars == <<variant, generation_timeout, workers, order, units, gen, pc, last,
          hist, scope, cache>>

NoneRet == [resp |-> "None", prompt |-> "", to |-> "", live |-> FALSE, by |-> 0]
Idle == [op |-> "idle", via |-> "", id |-> "", cfg |-> EmptyDict, i |-> 0]
NoHist == [reset_cfg |-> EmptyDict, started |-> FALSE, own |-> FALSE]
GenIdle == [st |-> "idle", unit |-> 0, prompt |-> ""]

\* the record prepare_llm registers
WorkerRecord_running(c) == [config |-> c, running |-> TRUE, unit |-> 0]
WorkerRecord(c) == [config |-> c, running |-> FALSE, unit |-> 0]

\* the execution unit _load_llm creates: fresh switch, fresh queues
NewUnit_leftover(X, c) ==
    [owner |-> X, config |-> c, switch |-> FALSE,
     input |-> <<[prompt |-> "pa", to |-> X, live |-> FALSE]>>,
     output |-> <<>>, pc |-> "spawn"]
NewUnit(X, c) ==
    [owner |-> X, config |-> c, switch |-> FALSE, input |-> <<>>,
     output |-> <<>>, pc |-> "spawn"]

Alive(u) == u.pc \in {"spawn", "wait", "get"}

\* how the worker body ends when the factory or generate raises: the
\* exception ends the thread; the process catches it and calls sys.exit(1)
body_raised_swallowed == "done"
body_raised == "failed"

\* Process.exitcode: None while the process runs, 0 after sys.exit(0), 1
\* after sys.exit(1), the negative signal number after kill()
exitcode(u) ==
    CASE u.pc = "done" -> "0"
      [] u.pc = "failed" -> "1"
      [] u.pc = "killed" -> "-9"
      [] OTHER -> "None"

\* the record of a call that returned (or raised): the call, its id, what
\* generate returned, and a note: "new" (prepare_llm registered the id),
\* "changed" / "same" (the configuration passed to reset_llm differed from /
\* equalled the stored one)
Returned(op, X, note, raised) ==
    [op |-> op, id |-> X, note |-> note, ret |-> NoneRet, raised |-> raised]

Frame == UNCHANGED <<variant, generation_timeout, scope, cache>>

\* A caller works on X while no other call on X is in flight; a call on
\* another id may be blocked in its join meanwhile (one join at a time)
CallerFree(X) ==
    pc.op = "idle" \/ (pc.op \in {"stop", "reset_llm"} /\ pc.id # X)

\* self.workers[target_worker] with an id that is not a key of self.workers:
\* KeyError, raised to the caller before anything was assigned
LookupError_sentinel(op, X) == Returned(op, X, "KeyError", FALSE)
LookupError(op, X) == Returned(op, X, "KeyError", TRUE)
Raises(op, X) ==
    /\ last' = LookupError(op, X)
    /\ UNCHANGED <<workers, order, units, gen, pc, hist>>

\* one caller, one id, every configuration
ScopeOne == [ids |-> {"w1"}, cfgs |-> [X \in WorkerIds |-> Configs],
             prompts |-> Prompts, track |-> {"w1"}]
\* two ids with independent configurations, as in test_03_multi_llm_handling:
\* "pb" is answered by a model built from cfgAB and raises in one built
\* from cfgA
ScopeTwo == [ids |-> WorkerIds,
             cfgs |-> ("w1" :> {cfgA, cfgAB}) @@ ("w2" :> {cfgAB}),
             prompts |-> {"pb"}, track |-> {}]

\* two ids, one of them with configurations that make the worker body
\* raise: cfgTop in the factory, cfgA in generate for the prompt "pb"
ScopeFail == [ids |-> WorkerIds,
              cfgs |-> ("w1" :> {cfgA, cfgTop}) @@ ("w2" :> {cfgAB}),
              prompts |-> {"pb"}, track |-> {}]

InitPool ==
    /\ variant \in {"thread", "process"}
    /\ generation_timeout \in {"None", "set"}
    /\ workers = EmptyDict
    /\ order = <<>>
    /\ units = <<>>
    /\ gen = [X \in WorkerIds |-> GenIdle]
    /\ pc = Idle
    /\ last = Returned("init", "", "", FALSE)
    /\ hist = [X \in WorkerIds |-> NoHist]

Init == InitPool /\ scope = ScopeOne /\ cache = <<>>
\* the pool of the tests: generation_timeout = 6.0
InitTwo ==
    InitPool /\ scope = ScopeTwo /\ generation_timeout = "set" /\ cache = <<>>
InitFail ==
    InitPool /\ scope = ScopeFail /\ generation_timeout = "set" /\ cache = <<>>

\* Queue.put: the item goes to the end of the queue, once
queue_put_twice(q, item) == Append(Append(q, item), item)
queue_put(q, item) == Append(q, item)

\* ------------------------------------------------------------------------
\* _unload_llm: switch.set(), then worker.join(1), then (process-backed)
\* kill() unless the exit code is 0 and running = False
\* ------------------------------------------------------------------------
SetSwitch_all(us, u) == [k \in 1..Len(us) |-> [us[k] EXCEPT !.switch = TRUE]]
SetSwitch(us, u) == [us EXCEPT ![u].switch = TRUE]

KillIfNotClean_never(us, u) == us
KillIfNotClean(us, u) ==
    IF variant = "process" /\ us[u].pc # "done"
    THEN [us EXCEPT ![u].pc = IF Alive(us[u]) THEN "killed" ELSE @]
    ELSE us

\* the running flag _unload_llm itself leaves behind
UnloadFlag(running) == IF variant = "process" THEN FALSE ELSE running

\* ------------------------------------------------------------------------
\* What the caller did with an id (history for the claims about sequences
\* of calls)
\* ------------------------------------------------------------------------
\* the history is kept for the ids scope.track names
Tracked(h) == [X \in WorkerIds |-> IF X \in scope.track THEN h[X] ELSE hist[X]]
Note(c, stored) == IF c # stored THEN "changed" ELSE "same"
HistReset(X, c, stored) ==
    IF c # stored
    THEN [hist EXCEPT ![X] = [reset_cfg |-> c, started |-> FALSE, own |-> FALSE]]
    ELSE hist
HistStart(X, loaded) ==
    [hist EXCEPT ![X] = [reset_cfg |-> @.reset_cfg,
                         started |-> @.reset_cfg # EmptyDict,
                         own |-> IF loaded THEN FALSE ELSE @.own]]
HistClear(X) == [hist EXCEPT ![X] = NoHist]

\* ------------------------------------------------------------------------
\* LLMPool.reset_llm, LLMPool.prepare_llm
\* ------------------------------------------------------------------------
\* self.workers[target_worker]["config"] = llm_configuration assigns the
\* configuration only: the running flag of the record stays what it was
flag_after_assign_started(running) == TRUE
flag_after_assign(running) == running

reset_llm(X, c, via) ==
    IF check_equality(workers[X].config, c)
    THEN /\ last' = Returned(via, X, Note(c, workers[X].config), FALSE)
         /\ hist' = Tracked(HistReset(X, c, workers[X].config))
         /\ UNCHANGED <<workers, order, units, gen, pc>>
    ELSE IF workers[X].running
         THEN /\ pc.op = "idle"
              /\ units' = SetSwitch(units, workers[X].unit)
              /\ pc' = [op |-> "reset_llm", via |-> via, id |-> X, cfg |-> c,
                        i |-> 0]
              /\ UNCHANGED <<workers, order, gen, last, hist>>
         ELSE /\ workers' = [workers EXCEPT ![X].config = c,
                                            ![X].running = flag_after_assign(@)]
              /\ last' = Returned(via, X, Note(c, workers[X].config), FALSE)
              /\ hist' = Tracked(HistReset(X, c, workers[X].config))
              /\ UNCHANGED <<order, units, gen, pc>>

\* reset_llm after the join of _unload_llm returned
ResetJoined ==
    /\ pc.op = "reset_llm"
    /\ LET X == pc.id
           u == workers[X].unit
       IN /\ units' = KillIfNotClean(units, u)
          /\ workers' = [workers EXCEPT
                            ![X].running = flag_after_assign(UnloadFlag(@)),
                            ![X].config = pc.cfg]
          /\ last' = Returned(pc.via, X, Note(pc.cfg, workers[X].config), FALSE)
          /\ hist' = Tracked(HistReset(X, pc.cfg, workers[X].config))
    /\ pc' = Idle
    /\ UNCHANGED <<order, gen>>
    /\ Frame

ResetLLM(X, c) ==
    /\ CallerFree(X)
    /\ gen[X].st = "idle"
    /\ IF X \in DOMAIN workers
       THEN reset_llm(X, c, "reset_llm")
       ELSE Raises("reset_llm", X)
    /\ Frame

\* self.workers[uuid] = {"config": llm_configuration, "running": False}
register_only(ws, X, c) == [Y \in {X} |-> WorkerRecord(c)]
register(ws, X, c) ==
    [Y \in DOMAIN ws \cup {X} |-> IF Y = X THEN WorkerRecord(c) ELSE ws[Y]]

prepare_creates_always(X) == TRUE
prepare_creates(X) == X \notin DOMAIN workers

PrepareLLM(c, X) ==
    /\ CallerFree(X)
    /\ gen[X].st = "idle"
    /\ IF prepare_creates(X)
       THEN /\ workers' = register(workers, X, c)
            /\ order' = IF X \in DOMAIN workers THEN order ELSE Append(order, X)
            /\ last' = Returned("prepare_llm", X, "new", FALSE)
            /\ hist' = Tracked(HistClear(X))
            /\ UNCHANGED <<units, gen, pc>>
       ELSE reset_llm(X, c, "prepare_llm")
    /\ Frame

\* ------------------------------------------------------------------------
\* LLMPool.is_running
\* ------------------------------------------------------------------------
IsRunning(X) ==
    /\ CallerFree(X)
    /\ IF X \in DOMAIN workers
       THEN /\ last' = Returned("is_running", X,
                                IF workers[X].running THEN "True" ELSE "False",
                                FALSE)
            /\ UNCHANGED <<workers, order, units, gen, pc, hist>>
       ELSE Raises("is_running", X)
    /\ Frame

\* ------------------------------------------------------------------------
\* LLMPool.start with _load_llm
\* ------------------------------------------------------------------------
\* if not self.is_running(target_worker)
start_loads_always(X) == TRUE
start_loads(X) == ~workers[X].running

Start(X) ==
    /\ CallerFree(X)
    /\ gen[X].st = "idle"
    /\ IF X \in DOMAIN workers
       THEN /\ IF start_loads(X)
               THEN /\ Len(units) < MaxUnits
                    /\ units' = Append(units, NewUnit(X, workers[X].config))
                    /\ workers' = [workers EXCEPT ![X].unit = Len(units) + 1,
                                                  ![X].running = TRUE]
                    /\ hist' = Tracked(HistStart(X, TRUE))
               ELSE /\ UNCHANGED <<units, workers>>
                    /\ hist' = Tracked(HistStart(X, FALSE))
            /\ last' = Returned("start", X, "", FALSE)
            /\ UNCHANGED <<order, gen, pc>>
       ELSE Raises("start", X)
    /\ Frame

\* ------------------------------------------------------------------------
\* LLMPool.stop
\* ------------------------------------------------------------------------
\* if self.is_running(target_worker)
\* self.workers[target_worker]["running"] = False after _unload_llm
StopFlag_unload(running) == UnloadFlag(running)
StopFlag(running) == FALSE

stop_unloads_always(X) == TRUE
stop_unloads(X) == workers[X].running

Stop(X) ==
    /\ CallerFree(X)
    /\ gen[X].st = "idle"
    /\ IF X \in DOMAIN workers
       THEN /\ IF stop_unloads(X)
               THEN /\ pc.op = "idle"
                    /\ units' = SetSwitch(units, workers[X].unit)
                    /\ pc' = [op |-> "stop", via |-> "stop", id |-> X,
                              cfg |-> EmptyDict, i |-> 0]
                    /\ UNCHANGED <<last, hist>>
               ELSE /\ last' = Returned("stop", X, "", FALSE)
                    /\ hist' = Tracked(HistClear(X))
                    /\ UNCHANGED <<units, pc>>
            /\ UNCHANGED <<workers, order, gen>>
       ELSE Raises("stop", X)
    /\ Frame

\* stop after the join of _unload_llm returned
StopJoined ==
    /\ pc.op = "stop"
    /\ LET X == pc.id
           u == workers[X].unit
       IN /\ units' = KillIfNotClean(units, u)
          /\ workers' = [workers EXCEPT ![X].running = StopFlag(@)]
          /\ last' = Returned("stop", X, "", FALSE)
          /\ hist' = Tracked(HistClear(X))
    /\ pc' = Idle
    /\ UNCHANGED <<order, gen>>
    /\ Frame

\* ------------------------------------------------------------------------
\* LLMPool.stop_all: for every id of self.workers, in insertion order,
\* _unload_llm(id) and running = False. A record that was never loaded has
\* no "switch" key: _unload_llm raises KeyError and the loop is left.
\* ------------------------------------------------------------------------
stop_all_from(ws, us, i) ==
    IF i > Len(order)
    THEN /\ last' = Returned("stop_all", "", "", FALSE)
         /\ pc' = Idle
         /\ workers' = ws
         /\ units' = us
    ELSE IF ws[order[i]].unit = 0
         THEN /\ last' = Returned("stop_all", "", "", TRUE)
              /\ pc' = Idle
              /\ workers' = ws
              /\ units' = us
         ELSE /\ units' = SetSwitch(us, ws[order[i]].unit)
              /\ pc' = [op |-> "stop_all", via |-> "stop_all", id |-> order[i],
                        cfg |-> EmptyDict, i |-> i]
              /\ workers' = ws
              /\ UNCHANGED last

StopAll ==
    /\ pc.op = "idle"
    /\ \A X \in WorkerIds : gen[X].st = "idle"
    /\ stop_all_from(workers, units, 1)
    /\ hist' = Tracked([X \in WorkerIds |-> NoHist])
    /\ UNCHANGED <<order, gen>>
    /\ Frame

\* stop_all after a join of _unload_llm returned: the rest of this
\* iteration, then the next one
StopAllJoined ==
    /\ pc.op = "stop_all"
    /\ LET X == pc.id
           u == workers[X].unit
       IN stop_all_from([workers EXCEPT ![X].running = FALSE],
                        KillIfNotClean(units, u), pc.i + 1)
    /\ UNCHANGED <<order, gen, hist>>
    /\ Frame

\* ------------------------------------------------------------------------
\* generate: input.put(prompt), then output.get(timeout=generation_timeout)
\* ------------------------------------------------------------------------
\* the queues self.workers[target_worker]["input"] / ["output"] name
OutputChannel_shared(X) == 1
OutputChannel(X) == workers[X].unit

\* output.get(timeout) raises Empty only when a timeout is given
get_never_times_out == FALSE
get_always_times_out == TRUE
get_times_out == generation_timeout # "None"

Generate(X, p) ==
    /\ CallerFree(X)
    /\ gen[X].st = "idle"
    /\ IF X \notin DOMAIN workers
       THEN Raises("generate", X)
       ELSE /\ IF workers[X].unit = 0
               THEN /\ last' = Returned("generate", X, "", TRUE)
                    /\ hist' = Tracked([hist EXCEPT ![X].own = FALSE])
                    /\ UNCHANGED <<units, gen>>
               ELSE /\ Len(units[workers[X].unit].input) < MaxQueue
                    /\ units' = [units EXCEPT ![workers[X].unit].input =
                                    queue_put(@, [prompt |-> p, to |-> X,
                                                  live |-> TRUE])]
                    /\ gen' = [gen EXCEPT ![X] = [st |-> "waiting",
                                                  unit |-> OutputChannel(X),
                                                  prompt |-> p]]
                    /\ UNCHANGED <<last, hist>>
            /\ UNCHANGED <<workers, order, pc>>
    /\ Frame

\* the caller's view of what is left in the queues once its call is over:
\* nothing there belongs to a call in flight
Stale(item) == [item EXCEPT !.live = FALSE]
StaleAll(q) == [k \in 1..Len(q) |-> Stale(q[k])]

\* a response is on the output queue: get returns it
GenerateReturn(X) ==
    /\ gen[X].st = "waiting"
    /\ units[gen[X].unit].output # <<>>
    /\ LET item == Head(units[gen[X].unit].output)
       IN /\ last' = [Returned("generate", X, "", FALSE) EXCEPT !.ret = item]
          /\ hist' = Tracked([hist EXCEPT ![X].own = item.live])
    /\ units' = [units EXCEPT ![gen[X].unit].output = StaleAll(Tail(@)),
                              ![gen[X].unit].input = StaleAll(@)]
    /\ gen' = [gen EXCEPT ![X] = GenIdle]
    /\ UNCHANGED <<workers, order, pc>>
    /\ Frame

\* the timeout elapsed with the output queue empty: Empty is caught, None
\* is returned; what this call sent stays in the worker's queues
GenerateTimeout(X) ==
    /\ gen[X].st = "waiting"
    /\ get_times_out
    /\ units[gen[X].unit].output = <<>>
    /\ last' = Returned("generate", X, "", FALSE)
    /\ hist' = Tracked([hist EXCEPT ![X].own = FALSE])
    /\ units' = [units EXCEPT ![gen[X].unit].input = StaleAll(@)]
    /\ gen' = [gen EXCEPT ![X] = GenIdle]
    /\ UNCHANGED <<workers, order, pc>>
    /\ Frame

\* ------------------------------------------------------------------------
\* The worker body: run_threaded_llm / run_multiprocessed_llm
\* ------------------------------------------------------------------------
PoolFrame == UNCHANGED <<workers, order, gen, pc, last, hist>>

\* an exception of the factory or of generate ends the body of unit u, and
\* of no other unit
AfterRaise_all(us, u) ==
    [k \in 1..Len(us) |->
        [us[k] EXCEPT !.pc = IF Alive(us[k]) THEN body_raised ELSE @]]
AfterRaise(us, u) == [us EXCEPT ![u].pc = body_raised]

\* llm = spawn_language_model_instance(**llm_configuration)
WorkerSpawn(u) ==
    /\ units[u].pc = "spawn"
    /\ units' = IF FactoryAccepts(units[u].config)
                 THEN [units EXCEPT ![u].pc = "wait"]
                 ELSE AfterRaise(units, u)
    /\ PoolFrame
    /\ Frame

\* while not switch.wait(0.5)
WorkerPoll(u) ==
    /\ units[u].pc = "wait"
    /\ units' = [units EXCEPT ![u].pc = IF units[u].switch THEN "done" ELSE "get"]
    /\ PoolFrame
    /\ Frame

\* what input_queue.get() leaves in the queue
input_after_get(q) == Tail(q)

\* output_queue.put(llm.generate(input_queue.get())): get blocks while the
\* input queue is empty; an exception of generate ends the body
WorkerServe(u) ==
    /\ units[u].pc = "get"
    /\ units[u].input # <<>>
    /\ LET item == Head(units[u].input)
       IN IF CanGenerate(units[u].config, item.prompt)
          THEN units' = [units EXCEPT
                   ![u].pc = "wait",
                   ![u].input = input_after_get(@),
                   ![u].output = queue_put(@,
                       [resp |-> LLMGenerate(units[u].config, item.prompt),
                        prompt |-> item.prompt, to |-> item.to,
                        live |-> item.live, by |-> u])]
          ELSE units' = AfterRaise(
                            [units EXCEPT ![u].input = input_after_get(@)], u)
    /\ PoolFrame
    /\ Frame

\* ------------------------------------------------------------------------
\* BackendController (src/src/control/backend_controller.py): the pool
\* behind load_instance, unload_instance, forward_generate and shutdown.
\* The controller builds ThreadedLLMPool() (no generation_timeout) and a
\* cache whose first key is "active". The counters and time stamps of the
\* cache entries are not modelled: nothing reads them.
\* ------------------------------------------------------------------------
ControllerFrame == UNCHANGED <<variant, generation_timeout, scope>>
CacheKeys == {cache[i] : i \in 1..Len(cache)}

\* the instance the callers and tests of get_object expect: the stored
\* instance, here its pool configuration
get_object_found(X) == {[raised |-> FALSE, cfg |-> c] : c \in scope.cfgs[X]}
\* self.get_object("instance", UUID(instance_uuid)): neither BackendController
\* nor BasicSQLAlchemyInterface defines get_object, the call raises
\* AttributeError
get_object(X) == {[raised |-> TRUE, cfg |-> EmptyDict]} \cup get_object_found(X)

\* prepare_llm(c, X) for a new id, start(X), and for forward_generate the
\* put of generate on the new input queue
load_new(ws, X, c, sent) ==
    /\ Len(units) < MaxUnits
    /\ units' = Append(units, [NewUnit(X, c) EXCEPT !.input = sent])
    /\ workers' = [ws EXCEPT ![X].unit = Len(units) + 1, ![X].running = TRUE]

\* load_instance with an id that is not in the cache: the cache entry is made
\* first, then the instance is looked up, prepared and started
load_uncached(X, op, sent) ==
    /\ X \notin DOMAIN workers
    /\ cache' = Append(cache, X)
    /\ \E r \in get_object(X) :
          IF r.raised
          THEN /\ last' = Returned(op, X, "AttributeError", TRUE)
               /\ UNCHANGED <<workers, order, units, gen, pc, hist>>
          ELSE /\ load_new(register(workers, X, r.cfg), X, r.cfg, sent)
               /\ order' = Append(order, X)
               /\ UNCHANGED <<pc, hist>>
               /\ IF sent = <<>>
                  THEN /\ last' = Returned(op, X, "", FALSE)
                       /\ UNCHANGED gen
                  ELSE /\ gen' = [gen EXCEPT ![X] =
                                     [st |-> "waiting", unit |-> Len(units) + 1,
                                      prompt |-> sent[1].prompt]]
                       /\ UNCHANGED last
    /\ ControllerFrame

\* load_instance: a cached id is started unless it is running (is_running
\* raises KeyError for a cached id the pool does not know)
LoadInstance(X) ==
    IF X \in CacheKeys
    THEN Start(X)
    ELSE /\ CallerFree(X)
         /\ gen[X].st = "idle"
         /\ load_uncached(X, "load_instance", <<>>)

\* unload_instance: stop for a cached id that is running, None for an id
\* that is not cached
UnloadInstance(X) ==
    IF X \in CacheKeys
    THEN Stop(X)
    ELSE /\ CallerFree(X)
         /\ last' = Returned("unload_instance", X, "None", FALSE)
         /\ UNCHANGED <<workers, order, units, gen, pc, hist>>
         /\ Frame

\* forward_generate: load_instance(X), then llm_pool.generate(X, prompt)
ForwardGenerate(X, p) ==
    LET sent == <<[prompt |-> p, to |-> X, live |-> TRUE]>>
    IN IF X \notin CacheKeys
       THEN /\ CallerFree(X)
            /\ gen[X].st = "idle"
            /\ load_uncached(X, "forward_generate", sent)
       ELSE IF X \in DOMAIN workers /\ workers[X].running
            THEN Generate(X, p)
            ELSE IF X \notin DOMAIN workers
                 THEN Start(X)
                 ELSE /\ CallerFree(X)
                      /\ gen[X].st = "idle"
                      /\ load_new(workers, X, workers[X].config, sent)
                      /\ gen' = [gen EXCEPT ![X] =
                                    [st |-> "waiting", unit |-> Len(units) + 1,
                                     prompt |-> p]]
                      /\ UNCHANGED <<order, pc, last, hist>>
                      /\ Frame

\* while any(self.llm_pool.is_running(k) for k in self._cache): the keys in
\* insertion order up to the first one that is running; is_running raises
\* KeyError for a key that is no id of the pool
shutdown_poll(ws) ==
    LET stops == {i \in 1..Len(cache) :
                     cache[i] \notin DOMAIN ws \/ ws[cache[i]].running}
    IN IF stops = {}
       THEN "return"
       ELSE LET i == CHOOSE j \in stops : \A k \in stops : j <= k
            IN IF cache[i] \notin DOMAIN ws THEN "KeyError" ELSE "sleep"

\* shutdown: llm_pool.stop_all() as in stop_all_from, then the polling loop
shutdown_from(ws, us, i) ==
    IF i > Len(order)
    THEN /\ workers' = ws
         /\ units' = us
         /\ IF shutdown_poll(ws) = "sleep"
            THEN /\ pc' = [op |-> "shutdown", via |-> "poll", id |-> "",
                           cfg |-> EmptyDict, i |-> i]
                 /\ UNCHANGED last
            ELSE /\ pc' = Idle
                 /\ last' = Returned("shutdown", "", shutdown_poll(ws),
                                     shutdown_poll(ws) = "KeyError")
    ELSE IF ws[order[i]].unit = 0
         THEN /\ last' = Returned("shutdown", "", "KeyError", TRUE)
              /\ pc' = Idle
              /\ workers' = ws
              /\ units' = us
         ELSE /\ units' = SetSwitch(us, ws[order[i]].unit)
              /\ pc' = [op |-> "shutdown", via |-> "stop_all", id |-> order[i],
                        cfg |-> EmptyDict, i |-> i]
              /\ workers' = ws
              /\ UNCHANGED last

Shutdown ==
    /\ pc.op = "idle"
    /\ \A X \in WorkerIds : gen[X].st = "idle"
    /\ shutdown_from(workers, units, 1)
    /\ UNCHANGED <<order, gen, hist>>
    /\ Frame

\* shutdown after a join of _unload_llm returned, or after sleep(2.0)
ShutdownJoined ==
    /\ pc.op = "shutdown"
    /\ IF pc.via = "poll"
       THEN shutdown_from(workers, units, pc.i)
       ELSE shutdown_from([workers EXCEPT ![pc.id].running = FALSE],
                          KillIfNotClean(units, workers[pc.id].unit), pc.i + 1)
    /\ UNCHANGED <<order, gen, hist>>
    /\ Frame

\* the instances and prompts of the controller's callers
ScopeController == [ids |-> WorkerIds, cfgs |-> [X \in WorkerIds |-> {cfgA, cfgAB}],
                    prompts |-> Prompts, track |-> {}]

\* BackendController.__init__
InitController ==
    /\ variant = "thread"
    /\ generation_timeout = "None"
    /\ workers = EmptyDict
    /\ order = <<>>
    /\ units = <<>>
    /\ gen = [X \in WorkerIds |-> GenIdle]
    /\ pc = Idle
    /\ last = Returned("init", "", "", FALSE)
    /\ hist = [X \in WorkerIds |-> NoHist]
    /\ scope = ScopeController
    /\ cache = <<"active">>

NextController ==
    \/ \E X \in scope.ids : LoadInstance(X)
    \/ \E X \in scope.ids : UnloadInstance(X)
    \/ StopJoined
    \/ \E X \in scope.ids, p \in scope.prompts : ForwardGenerate(X, p)
    \/ \E X \in scope.ids : GenerateReturn(X)
    \/ Shutdown
    \/ ShutdownJoined
    \/ \E u \in 1..Len(units) : WorkerSpawn(u)
    \/ \E u \in 1..Len(units) : WorkerPoll(u)
    \/ \E u \in 1..Len(units) : WorkerServe(u)

\* ------------------------------------------------------------------------
\* Specification
\* ------------------------------------------------------------------------
Next ==
    \/ \E X \in scope.ids : \E c \in scope.cfgs[X] : PrepareLLM(c, X)
    \/ \E X \in scope.ids : \E c \in scope.cfgs[X] : ResetLLM(X, c)
    \/ ResetJoined
    \/ \E X \in scope.ids : IsRunning(X)
    \/ \E X \in scope.ids : Start(X)
    \/ \E X \in scope.ids : Stop(X)
    \/ StopJoined
    \/ StopAll
    \/ StopAllJoined
    \/ \E X \in scope.ids, p \in scope.prompts : Generate(X, p)
    \/ \E X \in scope.ids : GenerateReturn(X)
    \/ \E X \in scope.ids : GenerateTimeout(X)
    \/ \E u \in 1..Len(units) : WorkerSpawn(u)
    \/ \E u \in 1..Len(units) : WorkerPoll(u)
    \/ \E u \in 1..Len(units) : WorkerServe(u)

Spec == Init /\ [][Next]_vars
SpecTwo == InitTwo /\ [][Next]_vars
SpecFail == InitFail /\ [][Next]_vars
SpecController == InitController /\ [][NextController]_vars

\* output.get(timeout) returns once an item is there or the timeout elapsed
FairSpec ==
    Spec /\ \A X \in WorkerIds : WF_vars(GenerateReturn(X) \/ GenerateTimeout(X))

\* a step of the worker body of the u-th execution unit
WorkerStep(u) ==
    /\ u \in 1..Len(units)
    /\ WorkerSpawn(u) \/ WorkerPoll(u) \/ WorkerServe(u)

\* worker.join(1) returns once the unit ended or one second elapsed
JoinReturns == ResetJoined \/ StopJoined \/ StopAllJoined

\* every thread and process is scheduled, and the blocking calls of the
\* callers that carry a timeout return
FairWorkers ==
    /\ FairSpec
    /\ WF_vars(JoinReturns)
    /\ \A u \in 1..MaxUnits : WF_vars(WorkerStep(u))

\* ------------------------------------------------------------------------
\* Claims
\* ------------------------------------------------------------------------
Between == pc.op = "idle"
UnitOf(X) == units[workers[X].unit]

\* C1: in both pool variants, right after prepare_llm registered a new id
\* is_running is False for it, right after start returned it is True, and
\* right after stop returned it is False.
C1_RunningAfterCall ==
    Between =>
        /\ (last.op = "prepare_llm" /\ last.note = "new") => ~workers[last.id].running
        /\ (last.op = "start" /\ ~last.raised) => workers[last.id].running
        /\ (last.op = "stop" /\ ~last.raised) => ~workers[last.id].running
C1_Witness ==
    /\ Between
    /\ last.op = "stop"
    /\ ~last.raised
    /\ workers[last.id].unit # 0
    /\ UnitOf(last.id).switch
    /\ ~workers[last.id].running

\* C2 (as claimed): after reset_llm returned with a configuration different
\* from the stored one, is_running is False, in both pool variants.
C2_NotRunningAfterReset ==
    (Between /\ last.op = "reset_llm" /\ last.note = "changed")
        => ~workers[last.id].running

\* C3 (as claimed): after reset_llm(X, c2) with c2 different from the stored
\* configuration, the configuration stored for X equals c2.
C3_ConfigReplaced ==
    (Between /\ last.op = "reset_llm" /\ last.note = "changed")
        => workers[last.id].config = hist[last.id].reset_cfg

\* C4 (as claimed): stop_all completes, and after it returned is_running is
\* False for every registered id, whatever the lifecycle states were.
C4_StopAllStopsAll ==
    (Between /\ last.op = "stop_all")
        => /\ ~last.raised
           /\ \A X \in DOMAIN workers : ~workers[X].running

\* C5 (as claimed): after a configuration-changing reset_llm(X, c2) followed
\* by start(X), every response generate(X, p) returns was produced by a
\* model built from c2.
C5_ResponsesFromNewConfig ==
    (last.op = "generate" /\ last.ret # NoneRet /\ hist[last.id].started)
        => units[last.ret.by].config = hist[last.id].reset_cfg

\* C6: reset_llm with the configuration that is already stored changes
\* nothing: the record (running flag, configuration, unit), the stop
\* switches and the queues stay as they are, and no unload is begun.
C6_ResetSameIsNoop ==
    [][\A X \in WorkerIds : \A c \in Configs :
          (X \in DOMAIN workers /\ ResetLLM(X, c) /\ workers[X].config = c)
              => UNCHANGED <<workers, order, units, gen, pc>>]_vars
C6_Witness ==
    /\ Between
    /\ last.op = "reset_llm"
    /\ last.note = "same"
    /\ workers[last.id].running
    /\ ~UnitOf(last.id).switch
    /\ UnitOf(last.id).pc = "get"

\* C7: when generate on X returned the response to its own prompt and the
\* next generate on X follows with no lifecycle call in between, the response
\* the second call receives is the response of the worker's model to the
\* second prompt: responses come in the order of the prompts.
C7_SequentialOrder ==
    \A X \in WorkerIds :
        (gen[X].st = "waiting" /\ hist[X].own /\ units[gen[X].unit].output # <<>>)
            => LET r == Head(units[gen[X].unit].output)
               IN /\ r.live
                  /\ r.prompt = gen[X].prompt
                  /\ r.resp = LLMGenerate(units[gen[X].unit].config, gen[X].prompt)
C7_Witness ==
    \E X \in WorkerIds :
        /\ gen[X].st = "waiting"
        /\ hist[X].own
        /\ gen[X].prompt = "pb"
        /\ units[gen[X].unit].output # <<>>
        /\ Head(units[gen[X].unit].output).resp = "rb"

\* C8: with two running workers, every response generate(A, p) returns was
\* produced by A's execution unit from a prompt sent to A.
C8_NoCrossTalk ==
    (last.op = "generate" /\ last.ret # NoneRet)
        => /\ last.ret.to = last.id
           /\ units[last.ret.by].owner = last.id
C8_Witness ==
    /\ last.op = "generate"
    /\ last.ret # NoneRet
    /\ \A X \in WorkerIds : X \in DOMAIN workers /\ workers[X].running
    /\ \E Y \in WorkerIds \ {last.id} : gen[Y].st = "waiting"

\* C9: with a generation_timeout, every generate call on a worker that has
\* been started returns (a response or None), and it does not raise.
C9_GenerateReturns ==
    /\ [](last.op = "generate" /\ last.raised
             => (last.id \notin DOMAIN workers \/ workers[last.id].unit = 0))
    /\ \A X \in WorkerIds :
          [](generation_timeout = "set" /\ gen[X].st = "waiting"
                => <>(gen[X].st = "idle"))
C9_Witness ==
    /\ generation_timeout = "set"
    /\ last.op = "generate"
    /\ ~last.raised
    /\ last.id \in DOMAIN workers
    /\ last.ret = NoneRet
    /\ ~Alive(UnitOf(last.id))

\* C10: prepare_llm with an id that is already registered is reset_llm on
\* that id with that configuration: the same step, reported as the return
\* of prepare_llm; no second record is created.
C10_PrepareTwiceIsReset ==
    [][\A X \in WorkerIds : \A c \in Configs :
          (PrepareLLM(c, X) /\ X \in DOMAIN workers)
              => /\ reset_llm(X, c, "prepare_llm")
                 /\ DOMAIN workers' = DOMAIN workers
                 /\ order' = order]_vars
C10_Witness ==
    /\ Between
    /\ last.op = "prepare_llm"
    /\ last.note = "changed"
    /\ workers[last.id].unit # 0

\* the execution units created for X whose worker body has not ended
AliveUnits(X) == {u \in 1..Len(units) : units[u].owner = X /\ Alive(units[u])}

\* C11: is_running, start, stop, generate and reset_llm with an id that is
\* not registered raise the lookup error to the caller (nothing is
\* returned) and change neither the worker mapping nor any execution unit.
C11_UnknownIdRaises ==
    [][\A X \in WorkerIds :
          (/\ X \notin DOMAIN workers
           /\ \/ IsRunning(X)
              \/ Start(X)
              \/ Stop(X)
              \/ \E p \in Prompts : Generate(X, p)
              \/ \E c \in Configs : ResetLLM(X, c))
              => /\ last'.raised
                 /\ last'.note = "KeyError"
                 /\ last'.id = X
                 /\ UNCHANGED <<workers, order, units, gen, pc>>]_vars
C11_Witness ==
    /\ last.raised
    /\ last.op = "reset_llm"
    /\ last.id \notin DOMAIN workers
    /\ \E Y \in DOMAIN workers : workers[Y].running /\ UnitOf(Y).pc = "get"

\* C12 (as claimed): in every reachable state at most one execution unit
\* running the worker body of an id is alive.
C12_AtMostOneUnit ==
    \A X \in WorkerIds : Cardinality(AliveUnits(X)) <= 1

\* C13 (as claimed): between pool operations the running flag of a record
\* is True exactly when the record's execution unit is alive.
C13_RunningIffAlive ==
    Between =>
        \A X \in DOMAIN workers :
            workers[X].running <=> (workers[X].unit # 0 /\ Alive(UnitOf(X)))

\* C14 (as claimed): whenever reset_llm or prepare_llm replaces the stored
\* configuration of X, the running flag of X is False at the assignment.
C14_ConfigChangesWhileStopped ==
    [][\A X \in DOMAIN workers :
          (X \in DOMAIN workers' /\ workers'[X].config # workers[X].config)
              => ~workers'[X].running]_vars

\* C15: start on a worker that is already running creates no switch, queue
\* or execution unit and leaves the record as it is.
C15_StartRunningIsNoop ==
    [][\A X \in WorkerIds :
          (X \in DOMAIN workers /\ workers[X].running /\ Start(X))
              => /\ UNCHANGED <<workers, order, units, gen, pc>>
                 /\ ~last'.raised]_vars
C15_Witness ==
    /\ Between
    /\ last.op = "start"
    /\ ~last.raised
    /\ hist[last.id].own
    /\ workers[last.id].running
    /\ Len(units) = 1

\* C16: stop on a registered worker that is not running sets no switch,
\* joins and kills nothing, leaves the record as it is and does not fail,
\* also for a worker that was prepared and never started; whenever stop on
\* a registered id returns, it returns normally.
C16_StopStoppedIsNoop ==
    [][\A X \in DOMAIN workers :
          /\ (~workers[X].running /\ Stop(X))
                => /\ UNCHANGED <<workers, order, units, gen, pc>>
                   /\ last' = Returned("stop", X, "", FALSE)
          /\ ((Stop(X) \/ (StopJoined /\ pc.id = X)) /\ last' # last)
                => last' = Returned("stop", X, "", FALSE)]_vars
C16_Witness ==
    /\ Between
    /\ last.op = "stop"
    /\ ~last.raised
    /\ last.id \in DOMAIN workers
    /\ workers[last.id].unit = 0

\* C17: prepare_llm with an id that is not registered adds exactly one
\* record, not running and holding the configuration, and leaves every other
\* record and every execution unit (switch, queues) untouched.
C17_PrepareNewIsLocal ==
    [][\A Y \in WorkerIds : \A c \in Configs :
          (Y \notin DOMAIN workers /\ PrepareLLM(c, Y))
              => /\ DOMAIN workers' = DOMAIN workers \cup {Y}
                 /\ workers'[Y] = [config |-> c, running |-> FALSE, unit |-> 0]
                 /\ \A Z \in DOMAIN workers : workers'[Z] = workers[Z]
                 /\ UNCHANGED <<units, gen, pc>>]_vars
C17_Witness ==
    /\ last.op = "prepare_llm"
    /\ last.note = "new"
    /\ \E Z \in DOMAIN workers \ {last.id} :
          /\ workers[Z].running
          /\ gen[Z].st = "waiting"

\* C18: the running flag of an id becomes True only by start on that id,
\* becomes False only by stop, stop_all or a configuration-changing
\* reset_llm on that id; a record is not running when it is registered, and
\* no record is ever removed.
C18_RunningStateMachine ==
    [][\A X \in WorkerIds :
          /\ X \in DOMAIN workers => X \in DOMAIN workers'
          /\ (X \notin DOMAIN workers /\ X \in DOMAIN workers')
                => ~workers'[X].running
          /\ (X \in DOMAIN workers /\ ~workers[X].running /\ workers'[X].running)
                => Start(X)
          /\ (X \in DOMAIN workers /\ workers[X].running /\ ~workers'[X].running)
                => /\ pc.id = X
                   /\ \/ StopJoined
                      \/ StopAllJoined
                      \/ ResetJoined /\ pc.cfg # workers[X].config]_vars
C18_Witness ==
    /\ Between
    /\ last.op = "start"
    /\ Len(units) = 2
    /\ units[1].owner = last.id
    /\ units[2].owner = last.id
    /\ workers[last.id].running

\* a step of a start, stop, reset_llm or generate call on A
CallOn(A) ==
    \/ Start(A)
    \/ Stop(A)
    \/ StopJoined /\ pc.id = A
    \/ \E c \in scope.cfgs[A] : ResetLLM(A, c)
    \/ ResetJoined /\ pc.id = A
    \/ \E p \in scope.prompts : Generate(A, p)
    \/ GenerateReturn(A)
    \/ GenerateTimeout(A)

\* a step of the worker body of one of B's execution units
WorkerStepOf(B) ==
    \E u \in 1..Len(units) :
        /\ units[u].owner = B
        /\ WorkerSpawn(u) \/ WorkerPoll(u) \/ WorkerServe(u)

\* a step of a call that concerns every registered id, or registers B
PoolWideStep(B) ==
    \/ StopAll
    \/ StopAllJoined
    \/ \E c \in scope.cfgs[B] : PrepareLLM(c, B)

\* something of B changes in the step: its record, its call in flight, one
\* of its execution units (switch, queues, worker body), or it gets a new one
PartChanged(B) ==
    \/ workers'[B] # workers[B]
    \/ gen'[B] # gen[B]
    \/ \E u \in 1..Len(units') :
          /\ units'[u].owner = B
          /\ u <= Len(units) => units'[u] # units[u]

\* C19: calls on two distinct registered ids do not interfere. Every record
\* names a switch and queues of its own. The record of B, the call in flight
\* on B and the execution units of B (switch, queues, worker body) change
\* only in a step of a call on B, of B's own worker body or of stop_all, and
\* the call such a step returns from is a call on B or stop_all: no step of
\* a call on another id A changes them, also while a call on B is in flight.
\* A unit that is created is built from its own id's configuration, and a
\* response returned for an id was produced by that id's unit from a prompt
\* sent to that id.
C19_DistinctIdsIndependent ==
    [][/\ \A X \in DOMAIN workers' :
            /\ workers'[X].unit # 0 => units'[workers'[X].unit].owner = X
            /\ gen'[X].st = "waiting" => units'[gen'[X].unit].owner = X
       /\ Len(units') >= Len(units)
       /\ \A u \in (Len(units) + 1)..Len(units') :
            units'[u] = NewUnit(units'[u].owner, workers[units'[u].owner].config)
       /\ (last' # last /\ last'.op = "generate" /\ last'.ret # NoneRet)
            => /\ last'.ret.to = last'.id
               /\ units[last'.ret.by].owner = last'.id
       /\ \A B \in DOMAIN workers :
            PartChanged(B)
                => /\ WorkerStepOf(B) \/ CallOn(B) \/ PoolWideStep(B)
                   /\ last' # last => last'.id \in {B, ""}]_vars
C19_Witness ==
    \E A \in DOMAIN workers : \E B \in DOMAIN workers \ {A} :
        /\ pc.op = "reset_llm"
        /\ pc.id = B
        /\ Alive(UnitOf(B))
        /\ last.op = "start"
        /\ last.id = A
        /\ gen[A].st = "waiting"
        /\ UnitOf(A).output # <<>>

\* C20 (as claimed): every value other than None that generate(X, p)
\* returns is the response of the worker's model to the prompt p of that
\* very call, also after earlier calls on X that returned None on timeout.
C20_OwnResponse ==
    [][\A X \in WorkerIds :
          GenerateReturn(X)
              => /\ last'.ret.prompt = gen[X].prompt
                 /\ last'.ret.resp =
                        LLMGenerate(units[gen[X].unit].config, gen[X].prompt)]_vars

\* C21 (as claimed): once the stop switch of an execution unit is set, its
\* worker body eventually ends, also when it is idle and no prompt arrives.
C21_StopObserved ==
    \A u \in 1..MaxUnits :
        [](u <= Len(units) /\ units[u].switch
              => <>(u <= Len(units) /\ ~Alive(units[u])))

\* C22: in the process-backed pool, when stop on a running worker returns,
\* the worker is marked not running and its process is no longer alive: a
\* process that had exited with status 0 or 1 keeps its exit status (one
\* that exited with 0 is not killed), any other process was killed.
C22_ProcessStopEndsProcess ==
    [][(variant = "process" /\ StopJoined)
          => LET X == pc.id
                 u == workers[pc.id].unit
             IN /\ ~workers'[X].running
                /\ ~Alive(units'[u])
                /\ exitcode(units'[u]) =
                       (IF exitcode(units[u]) \in {"0", "1"}
                        THEN exitcode(units[u]) ELSE "-9")
                /\ last' = Returned("stop", X, "", FALSE)]_vars
C22_Witness ==
    /\ Between
    /\ variant = "process"
    /\ last.op = "stop"
    /\ ~last.raised
    /\ workers[last.id].unit # 0
    /\ ~workers[last.id].running
    /\ exitcode(UnitOf(last.id)) = "-9"

\* the worker body of unit u is about to raise: in the factory, or in
\* generate for the prompt it takes from its input queue
BodyRaises(u) ==
    \/ units[u].pc = "spawn" /\ ~FactoryAccepts(units[u].config)
    \/ /\ units[u].pc = "get"
       /\ units[u].input # <<>>
       /\ ~CanGenerate(units[u].config, Head(units[u].input).prompt)

\* C23: the process-backed worker body exits with status 1 whenever the
\* factory or a generate call raises, and with status 0 exactly when it
\* leaves its loop having seen the stop switch set; after a factory failure
\* the process is not alive.
C23_ProcessExitStatus ==
    [][(variant = "process" /\ units' # units)
          => \A u \in 1..Len(units) :
                /\ (BodyRaises(u) /\ WorkerStep(u))
                       => exitcode(units'[u]) = "1" /\ ~Alive(units'[u])
                /\ (exitcode(units[u]) # "1" /\ exitcode(units'[u]) = "1")
                       => BodyRaises(u) /\ WorkerStep(u)
                /\ (exitcode(units[u]) # "0" /\ exitcode(units'[u]) = "0")
                       => units[u].switch /\ WorkerPoll(u)
                /\ (units[u].switch /\ WorkerPoll(u))
                       => exitcode(units'[u]) = "0"]_vars
C23_Witness ==
    /\ variant = "process"
    /\ Len(units) = 2
    /\ exitcode(units[1]) = "1"
    /\ ~FactoryAccepts(units[1].config)
    /\ exitcode(units[2]) = "0"

\* C24 (as claimed): under fair scheduling, a prompt waiting on the input
\* queue of the execution unit of a worker marked running is eventually
\* taken from the queue by the worker body, unless stop, stop_all or
\* reset_llm tears the worker down (sets its switch) first.
C24_PromptConsumed ==
    \A u \in 1..MaxUnits :
        []((/\ u <= Len(units)
            /\ units[u].input # <<>>
            /\ ~units[u].switch
            /\ workers[units[u].owner].unit = u
            /\ workers[units[u].owner].running)
              => <>(/\ u <= Len(units)
                    /\ units[u].input = <<>> \/ units[u].switch))

\* C25: a step in which the body of a worker A raises (in the factory or in
\* generate) changes only A's execution unit, which ends having taken the
\* prompt: the worker mapping, the calls in flight, the result of the last
\* call and every other execution unit with its switch and queues, so all
\* that decides whether another worker B answers and what a call on B
\* returns or raises, stay as they are.
C25_FailureIsolated ==
    [][\A u \in 1..Len(units) :
          (BodyRaises(u) /\ WorkerStep(u))
              => /\ UNCHANGED <<workers, order, gen, pc, last>>
                 /\ Len(units') = Len(units)
                 /\ \A v \in 1..Len(units) \ {u} : units'[v] = units[v]
                 /\ units'[u] =
                       [units[u] EXCEPT
                           !.pc = "failed",
                           !.input = IF units[u].pc = "get" THEN Tail(@) ELSE @]
          ]_vars
C25_Witness ==
    \E A \in DOMAIN workers : \E B \in DOMAIN workers \ {A} :
        /\ workers[A].unit # 0
        /\ workers[B].unit # 0
        /\ UnitOf(A).pc = "failed"
        /\ workers[A].running
        /\ workers[B].running
        /\ gen[B].st = "waiting"
        /\ UnitOf(B).pc = "get"
        /\ UnitOf(B).input # <<>>
        /\ Head(UnitOf(B).input).live

\* C26 (as claimed): the comparison reset_llm makes between the stored and
\* the new configuration is True exactly when the two are equal as nested
\* mappings, and it gives the same result with its arguments exchanged.
C26_CheckEqualityIsDeepEquality ==
    [][\A X \in DOMAIN workers : \A c \in Configs :
          ResetLLM(X, c)
              => /\ check_equality(workers[X].config, c) <=> (workers[X].config = c)
                 /\ check_equality(workers[X].config, c)
                       = check_equality(c, workers[X].config)]_vars

\* C27: a start that loads the worker gives it a new execution unit with an
\* empty input queue, an empty output queue and an unset switch, and leaves
\* the units of earlier runs as they are. A prompt is put only on the input
\* queue of the worker's current unit, a response only on the output queue
\* of the unit that served it, and generate returns only what the current
\* unit produced: nothing left in the queues of an earlier run is consumed
\* by the new worker body or returned by a generate call of the new run.
C27_FreshChannels ==
    [][/\ \A X \in DOMAIN workers :
            (Start(X) /\ ~workers[X].running)
                => /\ Len(units') = Len(units) + 1
                   /\ workers'[X].unit = Len(units')
                   /\ units'[Len(units')].input = <<>>
                   /\ units'[Len(units')].output = <<>>
                   /\ ~units'[Len(units')].switch
                   /\ \A v \in 1..Len(units) : units'[v] = units[v]
       /\ \A u \in 1..Len(units) :
            /\ Len(units'[u].input) > Len(units[u].input)
                  => /\ workers[units[u].owner].unit = u
                     /\ \E p \in Prompts : Generate(units[u].owner, p)
            /\ Len(units'[u].output) > Len(units[u].output)
                  => /\ WorkerServe(u)
                     /\ units'[u].output[Len(units'[u].output)].by = u
       /\ \A X \in DOMAIN workers :
            GenerateReturn(X)
                => /\ gen[X].unit = workers[X].unit
                   /\ last'.ret.by = workers[X].unit]_vars
C27_Witness ==
    /\ Len(units) = 2
    /\ units[1].owner = units[2].owner
    /\ units[1].switch
    /\ units[1].output # <<>>
    /\ last.op = "generate"
    /\ last.ret # NoneRet
    /\ last.ret.by = 2

\* C28: in the thread-backed pool, when the body of a running worker has
\* ended (it raised, or it returned after seeing the switch), the step in
\* which stop returns marks the worker not running, returns normally and
\* changes nothing else: record, units and result are the same whether the
\* thread had raised or returned.
C28_ThreadStopAfterDeath ==
    [][(variant = "thread" /\ StopJoined /\ ~Alive(UnitOf(pc.id)))
          => /\ workers' = [workers EXCEPT ![pc.id].running = FALSE]
             /\ last' = Returned("stop", pc.id, "", FALSE)
             /\ pc' = Idle
             /\ UNCHANGED <<order, units, gen>>]_vars
C28_Witness ==
    /\ Between
    /\ variant = "thread"
    /\ last.op = "stop"
    /\ ~last.raised
    /\ workers[last.id].unit # 0
    /\ UnitOf(last.id).pc = "failed"
    /\ UnitOf(last.id).switch
    /\ ~workers[last.id].running

\* C29: without a generation_timeout, a generate call that waits on the
\* output queue of a unit whose worker body has ended, with nothing on that
\* queue, stays blocked: in every step the call is still waiting, no result
\* of generate is returned for the id, the unit stays ended and its output
\* queue stays empty, so the call never returns.
C29_BlockedForever ==
    [][\A X \in WorkerIds :
          (/\ generation_timeout = "None"
           /\ gen[X].st = "waiting"
           /\ ~Alive(units[gen[X].unit])
           /\ units[gen[X].unit].output = <<>>)
              => /\ gen'[X] = gen[X]
                 /\ ~Alive(units'[gen[X].unit])
                 /\ units'[gen[X].unit].output = <<>>
                 /\ last' # last => ~(last'.op = "generate" /\ last'.id = X)]_vars
C29_Witness ==
    \E X \in DOMAIN workers :
        /\ generation_timeout = "None"
        /\ gen[X].st = "waiting"
        /\ UnitOf(X).pc = "failed"
        /\ UnitOf(X).output = <<>>
        /\ UnitOf(X).input # <<>>
        /\ workers[X].running
        /\ last.op = "is_running"

\* C30 (as claimed): whenever BackendController.shutdown ends, it returns
\* without raising, and no key of the controller's cache names a running
\* worker of the pool.
C30_ShutdownCompletes ==
    last.op = "shutdown"
        => /\ ~last.raised
           /\ \A k \in CacheKeys :
                 k \in DOMAIN workers => ~workers[k].running
====
